---- MODULE Spec2Model ----
(***************************************************************************)
(* State-machine model of the Monte Carlo season simulator and the 7-tier  *)
(* tiebreaker resolver (backend/simulation, backend/models).               *)
(*                                                                         *)
(* Win percentages are Python floats a / b of small integers.  They are    *)
(* modelled as exact fractions <<a, b>> (b > 0); comparisons and the       *)
(* 1e-4 / 1e-9 tolerances are evaluated exactly by cross multiplication.   *)
(* Within the bounds used here two distinct fractions differ by far more   *)
(* than a rounding error, and two equal ones by far less than 1e-9.        *)
(***************************************************************************)
EXTENDS Integers, Sequences, FiniteSets, TLC

(***************************************************************************)
(* Bounds of the model                                                     *)
(***************************************************************************)
MaxMatches == 3

MaxIterations == 2

MaxOverrides == 1

\* override scores posted to /api/simulate range over -1..MaxScore
MaxScore == 4

\* seeds given to simulate_match_with_seed range over 0..MaxSeed
MaxSeed == 1

(***************************************************************************)
(* Program constants                                                       *)
(***************************************************************************)
\* Optional[int] = None : the absent score of an unplayed match
None == -9

\* best-of-5: a series is won with 3 maps
WinsNeeded == 3

\* longest best-of-5 series
BEST_OF == 5

PLAY_IN_TEAMS == 10

BRACKET_TEAMS == 6

\* abs(pct - current_pct) < 0.0001   (1 / RecordTolDen)
RecordTolDen == 10000

\* abs(value - current_value) < 1e-9 (1 / TierTolDen)
TierTolDen == 1000000000

(***************************************************************************)
(* Teams.  The order of TeamNames is the insertion order of the teams      *)
(* dictionary, which Python's stable sort falls back to.                   *)
(***************************************************************************)
TeamNames == <<"A", "B", "C">>

Teams == {TeamNames[i] : i \in 1..Len(TeamNames)}

NumTeams == Len(TeamNames)

(***************************************************************************)
(* Generic sequence helpers                                                *)
(***************************************************************************)
Range(s) == {s[i] : i \in 1..Len(s)}

Abs(x) == IF x < 0 THEN -x ELSE x

RECURSIVE GCD(_, _)
GCD(a, b) == IF b = 0 THEN a ELSE GCD(b, a % b)

RECURSIVE Flatten(_)
Flatten(ss) == IF ss = <<>> THEN <<>> ELSE Head(ss) \o Flatten(Tail(ss))

IndexOf(s, x) == CHOOSE i \in 1..Len(s) : s[i] = x

IsPermutationOf(s, S) ==
    /\ Len(s) = Cardinality(S)
    /\ Range(s) = S

EmptyMap == [x \in {} |-> 0]

\* a dict or list built once: the function f with all its values computed
Built(f) == f @@ EmptyMap

Orderings(S) ==
    {s \in [1..Cardinality(S) -> S] : Range(s) = S}

(***************************************************************************)
(* Fractions: <<num, den>> with den > 0                                    *)
(***************************************************************************)
Zero == <<0, 1>>

\* wins / total if total > 0 else 0.0
Pct(wins, total) == IF total > 0 THEN <<wins, total>> ELSE Zero

Reduce(f) ==
    LET g == GCD(Abs(f[1]), f[2])
    IN  IF g = 0 THEN Zero ELSE <<f[1] \div g, f[2] \div g>>

FracAdd(f, g) == Reduce(<<f[1] * g[2] + g[1] * f[2], f[2] * g[2]>>)

FracDivInt(f, n) == Reduce(<<f[1], f[2] * n>>)

FracGT(f, g) == f[1] * g[2] > g[1] * f[2]

FracEQ(f, g) == f[1] * g[2] = g[1] * f[2]

\* abs(f - g) < 1 / tolDen
WithinTol(f, g, tolDen) ==
    Abs(f[1] * g[2] - g[1] * f[2]) <= ((f[2] * g[2]) - 1) \div tolDen

(***************************************************************************)
(* Match (backend/models/match.py)                                         *)
(***************************************************************************)
Match(id, team1, team2, team1_score, team2_score) ==
    [id |-> id, team1 |-> team1, team2 |-> team2,
     team1_score |-> team1_score, team2_score |-> team2_score]

is_completed(m) == m.team1_score # None /\ m.team2_score # None

winner(m) == IF m.team1_score > m.team2_score THEN m.team1 ELSE m.team2

loser(m) == IF m.team1_score > m.team2_score THEN m.team2 ELSE m.team1

is_valid_score(m) ==
    IF ~is_completed(m) THEN TRUE
    ELSE IF m.team1_score # WinsNeeded /\ m.team2_score # WinsNeeded THEN FALSE
    ELSE IF ~(0 <= m.team1_score /\ m.team1_score <= WinsNeeded
              /\ 0 <= m.team2_score /\ m.team2_score <= WinsNeeded) THEN FALSE
    ELSE TRUE

(***************************************************************************)
(* Team (backend/models/team.py)                                           *)
(***************************************************************************)
Team(elo_rating) ==
    [elo_rating |-> elo_rating, match_wins |-> 0, match_losses |-> 0,
     map_wins |-> 0, map_losses |-> 0]

match_win_pct(t) == Pct(t.match_wins, t.match_wins + t.match_losses)

map_win_pct(t) == Pct(t.map_wins, t.map_wins + t.map_losses)

reset_records(t) ==
    [t EXCEPT !.match_wins = 0, !.match_losses = 0,
              !.map_wins = 0, !.map_losses = 0]

(***************************************************************************)
(* SeasonStandings (backend/models/standings.py).  A standings object st   *)
(* is [teams |-> name -> Team, matches |-> sequence of Match].             *)
(***************************************************************************)
SeasonStandings(teams, matches) == [teams |-> teams, matches |-> matches]

get_completed_matches(st) == SelectSeq(st.matches, is_completed)

get_head_to_head_matches(st, team_names) ==
    LET team_set == Range(team_names)
        keep(m) == is_completed(m) /\ m.team1 \in team_set /\ m.team2 \in team_set
    IN  SelectSeq(st.matches, keep)

\* variant: the matchups are taken from all listed matches, decided or not
AllTeamsListedEachOther(st, team_names) ==
    IF Len(team_names) < 2 THEN TRUE
    ELSE LET required_matchups ==
                 {{team_names[i], team_names[j]} :
                     <<i, j>> \in {p \in (1..Len(team_names)) \X (1..Len(team_names)) :
                                      p[1] < p[2]}}
             actual_matchups ==
                 {{st.matches[k].team1, st.matches[k].team2} : k \in 1..Len(st.matches)}
         IN  required_matchups \subseteq actual_matchups

all_teams_played_each_other(st, team_names) ==
    IF Len(team_names) < 2 THEN TRUE
    ELSE LET required_matchups ==
                 {{team_names[i], team_names[j]} :
                     <<i, j>> \in {p \in (1..Len(team_names)) \X (1..Len(team_names)) :
                                      p[1] < p[2]}}
             h2h == get_head_to_head_matches(st, team_names)
             actual_matchups == {{h2h[k].team1, h2h[k].team2} : k \in 1..Len(h2h)}
         IN  required_matchups \subseteq actual_matchups

\* one pass of the loop body of get_head_to_head_record
H2HAddMatch(records, m, use_maps) ==
    IF use_maps
    THEN LET r1 == records[m.team1]
             r2 == records[m.team2]
             step1 == [records EXCEPT ![m.team1] =
                          <<r1[1] + m.team1_score, r1[2] + m.team2_score>>]
         IN  [step1 EXCEPT ![m.team2] =
                          <<r2[1] + m.team2_score, r2[2] + m.team1_score>>]
    ELSE LET w == winner(m)
             l == loser(m)
             step1 == [records EXCEPT ![w] = <<records[w][1] + 1, records[w][2]>>]
         IN  [step1 EXCEPT ![l] = <<step1[l][1], step1[l][2] + 1>>]

RECURSIVE H2HFold(_, _, _)
H2HFold(records, ms, use_maps) ==
    IF ms = <<>> THEN records
    ELSE H2HFold(H2HAddMatch(records, Head(ms), use_maps), Tail(ms), use_maps)

get_head_to_head_record(st, team_names, use_maps) ==
    H2HFold([t \in Range(team_names) |-> <<0, 0>>],
            get_head_to_head_matches(st, team_names), use_maps)

\* the opponents list: one entry per completed match of team_name
RECURSIVE Opponents(_, _)
Opponents(ms, team_name) ==
    IF ms = <<>> THEN <<>>
    ELSE LET m == Head(ms)
         IN  (IF m.team1 = team_name THEN <<m.team2>>
              ELSE IF m.team2 = team_name THEN <<m.team1>>
              ELSE <<>>) \o Opponents(Tail(ms), team_name)

\* opp's <<wins, losses>> after subtracting its matches against team_name
RECURSIVE SubtractVs(_, _, _, _, _)
SubtractVs(wl, ms, opp, team_name, use_maps) ==
    IF ms = <<>> THEN wl
    ELSE LET m == Head(ms)
             next ==
                 IF use_maps
                 THEN IF m.team1 = opp /\ m.team2 = team_name
                      THEN <<wl[1] - m.team1_score, wl[2] - m.team2_score>>
                      ELSE IF m.team2 = opp /\ m.team1 = team_name
                      THEN <<wl[1] - m.team2_score, wl[2] - m.team1_score>>
                      ELSE wl
                 ELSE IF (m.team1 = opp /\ m.team2 = team_name)
                         \/ (m.team2 = opp /\ m.team1 = team_name)
                      THEN IF winner(m) = opp THEN <<wl[1] - 1, wl[2]>>
                           ELSE <<wl[1], wl[2] - 1>>
                      ELSE wl
         IN  SubtractVs(next, Tail(ms), opp, team_name, use_maps)

OpponentWinPct(st, opp, team_name, use_maps) ==
    LET opp_team == st.teams[opp]
        start == IF use_maps THEN <<opp_team.map_wins, opp_team.map_losses>>
                 ELSE <<opp_team.match_wins, opp_team.match_losses>>
        wl == SubtractVs(start, get_completed_matches(st), opp, team_name, use_maps)
    IN  Pct(wl[1], wl[1] + wl[2])

RECURSIVE FracSum(_)
FracSum(fs) == IF fs = <<>> THEN Zero ELSE FracAdd(Head(fs), FracSum(Tail(fs)))

calculate_strength_of_schedule(st, team_name, use_maps) ==
    LET opponents == Opponents(get_completed_matches(st), team_name)
        opponent_win_pcts ==
            Built([k \in 1..Len(opponents) |->
                OpponentWinPct(st, opponents[k], team_name, use_maps)])
    IN  IF opponents = <<>> THEN Zero
        ELSE FracDivInt(FracSum(opponent_win_pcts), Len(opponents))

\* sorted(names, key = ..., reverse = True): stable, descending
RECURSIVE InsertDesc(_, _, _)
InsertDesc(sorted, t, key) ==
    IF sorted = <<>> THEN <<t>>
    ELSE IF FracGT(key[t], key[Head(sorted)]) THEN <<t>> \o sorted
    ELSE <<Head(sorted)>> \o InsertDesc(Tail(sorted), t, key)

RECURSIVE SortedDesc(_, _)
SortedDesc(names, key) ==
    IF names = <<>> THEN <<>>
    ELSE InsertDesc(SortedDesc(SubSeq(names, 1, Len(names) - 1), key),
                    names[Len(names)], key)

\* self.teams.keys(): the teams of the standings, in insertion order
TeamKeys(st) ==
    LET Present(t) == t \in DOMAIN st.teams
    IN  SelectSeq(TeamNames, Present)

RecordPct(st, use_maps) ==
    Built([t \in DOMAIN st.teams |-> IF use_maps THEN map_win_pct(st.teams[t])
                                     ELSE match_win_pct(st.teams[t])])

\* variant: sorted without reverse=True (worst record first)
TeamsByRecordAscending(st, use_maps) ==
    LET desc == SortedDesc(TeamKeys(st), RecordPct(st, use_maps))
    IN  [k \in 1..Len(desc) |-> desc[Len(desc) + 1 - k]]

get_teams_by_record(st, use_maps) ==
    SortedDesc(TeamKeys(st), RecordPct(st, use_maps))

\* the loop of group_teams_by_record: current_pct follows the last team added
RECURSIVE GroupByRecord(_, _, _, _, _)
GroupByRecord(names, pct, groups, current_group, current_pct) ==
    IF names = <<>>
    THEN IF current_group # <<>> THEN Append(groups, current_group) ELSE groups
    ELSE LET team == Head(names)
         IN  IF current_group = <<>> \/ WithinTol(pct[team], current_pct, RecordTolDen)
             THEN GroupByRecord(Tail(names), pct, groups,
                                Append(current_group, team), pct[team])
             ELSE GroupByRecord(Tail(names), pct, Append(groups, current_group),
                                <<team>>, pct[team])

\* variant: the use_maps flag is read the wrong way round
GroupTeamsByOtherRecord(st, use_maps) ==
    GroupByRecord(get_teams_by_record(st, ~use_maps), RecordPct(st, ~use_maps),
                  <<>>, <<>>, Zero)

group_teams_by_record(st, use_maps) ==
    GroupByRecord(get_teams_by_record(st, use_maps), RecordPct(st, use_maps),
                  <<>>, <<>>, Zero)

\* one completed match folded into the team records
ApplyMatchToTeams(teams, m) ==
    LET t1won == m.team1_score > m.team2_score
        a == [teams EXCEPT
                 ![m.team1] =
                     [@ EXCEPT !.match_wins = IF t1won THEN @ + 1 ELSE @,
                               !.match_losses = IF t1won THEN @ ELSE @ + 1,
                               !.map_wins = @ + m.team1_score,
                               !.map_losses = @ + m.team2_score]]
    IN  [a EXCEPT
            ![m.team2] =
                [@ EXCEPT !.match_wins = IF t1won THEN @ ELSE @ + 1,
                          !.match_losses = IF t1won THEN @ + 1 ELSE @,
                          !.map_wins = @ + m.team2_score,
                          !.map_losses = @ + m.team1_score]]

RECURSIVE ApplyMatches(_, _)
ApplyMatches(teams, ms) ==
    IF ms = <<>> THEN teams
    ELSE ApplyMatches(ApplyMatchToTeams(teams, Head(ms)), Tail(ms))

\* variant: the records are not reset before the matches are applied
UpdateWithoutReset(st) == ApplyMatches(st.teams, get_completed_matches(st))

update_team_records_from_matches(st) ==
    ApplyMatches([t \in DOMAIN st.teams |-> reset_records(st.teams[t])],
                 get_completed_matches(st))

(***************************************************************************)
(* TiebreakerResolver (backend/simulation/tiebreaker.py).                  *)
(* NoResult is Python's None returned by a tier that does not separate.    *)
(* rnd is the outcome of the random source: an ordering of all teams that  *)
(* random.shuffle imposes on the group it is given.                        *)
(***************************************************************************)
NoResult == <<>>

RECURSIVE resolve_tie(_, _, _)

\* the grouping loop: current_value is the value of the group's first team
RECURSIVE GroupByMetric(_, _, _, _, _)
GroupByMetric(names, metric_values, groups, current_group, current_value) ==
    IF names = <<>> THEN Append(groups, current_group)
    ELSE LET team == Head(names)
             value == metric_values[team]
         IN  IF WithinTol(value, current_value, TierTolDen)
             THEN GroupByMetric(Tail(names), metric_values, groups,
                                Append(current_group, team), current_value)
             ELSE GroupByMetric(Tail(names), metric_values,
                                Append(groups, current_group), <<team>>, value)

\* variant: current_group is never started anew, so that every group of the
\* list is the one list object holding all the teams
MetricGroupsNeverRestarted(sorted_teams, metric_values) ==
    LET groups == GroupByMetric(Tail(sorted_teams), metric_values, <<>>,
                                <<Head(sorted_teams)>>, metric_values[Head(sorted_teams)])
    IN  [g \in 1..Len(groups) |-> sorted_teams]

MetricGroups(sorted_teams, metric_values) ==
    GroupByMetric(Tail(sorted_teams), metric_values, <<>>,
                  <<Head(sorted_teams)>>, metric_values[Head(sorted_teams)])

\* variant: the singleton groups are left out of the resolved list
HandlePartialSeparationDropsSingletons(st, sorted_teams, metric_values, rnd) ==
    LET groups == MetricGroups(sorted_teams, metric_values)
    IN  IF Len(groups) = 1 THEN NoResult
        ELSE Flatten(Built([g \in 1..Len(groups) |->
                         IF Len(groups[g]) = 1 THEN <<>>
                         ELSE resolve_tie(st, groups[g], rnd)]))

\* variant: a run of two or more teams is kept as sorted, not resolved again
HandlePartialSeparationKeepsRuns(st, sorted_teams, metric_values, rnd) ==
    LET groups == MetricGroups(sorted_teams, metric_values)
    IN  IF Len(groups) = 1 THEN NoResult
        ELSE Flatten(Built([g \in 1..Len(groups) |-> groups[g]]))

_handle_partial_separation(st, sorted_teams, metric_values, rnd) ==
    LET groups == MetricGroups(sorted_teams, metric_values)
    IN  IF Len(groups) = 1 THEN NoResult
        ELSE Flatten(Built([g \in 1..Len(groups) |->
                         IF Len(groups[g]) = 1 THEN groups[g]
                         ELSE resolve_tie(st, groups[g], rnd)]))

H2HWinPcts(st, teams, use_maps) ==
    LET h2h_records == get_head_to_head_record(st, teams, use_maps)
    IN  Built([t \in Range(teams) |->
            Pct(h2h_records[t][1], h2h_records[t][1] + h2h_records[t][2])])

\* variant: tier 1 without the all_teams_played_each_other check
Tier1WithoutPlayedCheck(st, teams, rnd) ==
    LET win_pcts == H2HWinPcts(st, teams, FALSE)
    IN  _handle_partial_separation(st, SortedDesc(teams, win_pcts), win_pcts, rnd)

_apply_tier1_h2h_match_pct(st, teams, rnd) ==
    IF ~all_teams_played_each_other(st, teams) THEN NoResult
    ELSE LET win_pcts == H2HWinPcts(st, teams, FALSE)
         IN  _handle_partial_separation(st, SortedDesc(teams, win_pcts), win_pcts, rnd)

\* variant: tier 2 reads the match-level records (use_maps = False)
Tier2WithMatchRecords(st, teams, rnd) ==
    IF ~all_teams_played_each_other(st, teams) THEN NoResult
    ELSE LET win_pcts == H2HWinPcts(st, teams, FALSE)
         IN  _handle_partial_separation(st, SortedDesc(teams, win_pcts), win_pcts, rnd)

_apply_tier2_h2h_map_pct(st, teams, rnd) ==
    IF ~all_teams_played_each_other(st, teams) THEN NoResult
    ELSE LET win_pcts == H2HWinPcts(st, teams, TRUE)
         IN  _handle_partial_separation(st, SortedDesc(teams, win_pcts), win_pcts, rnd)

_apply_tier3_overall_match_pct(st, teams, rnd) ==
    LET win_pcts == Built([t \in Range(teams) |-> match_win_pct(st.teams[t])])
    IN  _handle_partial_separation(st, SortedDesc(teams, win_pcts), win_pcts, rnd)

_apply_tier4_overall_map_pct(st, teams, rnd) ==
    LET win_pcts == Built([t \in Range(teams) |-> map_win_pct(st.teams[t])])
    IN  _handle_partial_separation(st, SortedDesc(teams, win_pcts), win_pcts, rnd)

_apply_tier5_sos_match(st, teams, rnd) ==
    LET sos_values == Built([t \in Range(teams) |->
                          calculate_strength_of_schedule(st, t, FALSE)])
    IN  _handle_partial_separation(st, SortedDesc(teams, sos_values), sos_values, rnd)

_apply_tier6_sos_map(st, teams, rnd) ==
    LET sos_values == Built([t \in Range(teams) |->
                          calculate_strength_of_schedule(st, t, TRUE)])
    IN  _handle_partial_separation(st, SortedDesc(teams, sos_values), sos_values, rnd)

\* variant: the copy of teams is returned without the shuffle
Tier7KeepsOrder(st, teams, rnd) == teams

\* random.shuffle of a copy of teams: the order rnd gives its members
_apply_tier7_seed_specific(st, teams, rnd) ==
    LET in_group(t) == t \in Range(teams)
    IN  SelectSeq(rnd, in_group)

\* variant: tier 4 (overall map %) is tried before tier 3 (overall match %)
ResolveFromTier4First(st, tied_teams, rnd) ==
    LET r3 == _apply_tier3_overall_match_pct(st, tied_teams, rnd)
        r4 == _apply_tier4_overall_map_pct(st, tied_teams, rnd)
        r5 == _apply_tier5_sos_match(st, tied_teams, rnd)
        r6 == _apply_tier6_sos_map(st, tied_teams, rnd)
    IN  IF r4 # NoResult THEN r4
        ELSE IF r3 # NoResult THEN r3
        ELSE IF r5 # NoResult THEN r5
        ELSE IF r6 # NoResult THEN r6
        ELSE _apply_tier7_seed_specific(st, tied_teams, rnd)

\* tiers 3..7 in order (the tail of resolve_tie)
ResolveFromTier3(st, tied_teams, rnd) ==
    LET r3 == _apply_tier3_overall_match_pct(st, tied_teams, rnd)
        r4 == _apply_tier4_overall_map_pct(st, tied_teams, rnd)
        r5 == _apply_tier5_sos_match(st, tied_teams, rnd)
        r6 == _apply_tier6_sos_map(st, tied_teams, rnd)
    IN  IF r3 # NoResult THEN r3
        ELSE IF r4 # NoResult THEN r4
        ELSE IF r5 # NoResult THEN r5
        ELSE IF r6 # NoResult THEN r6
        ELSE _apply_tier7_seed_specific(st, tied_teams, rnd)

resolve_tie(st, tied_teams, rnd) ==
    IF Len(tied_teams) <= 1 THEN tied_teams
    ELSE LET r1 == _apply_tier1_h2h_match_pct(st, tied_teams, rnd)
             r2 == _apply_tier2_h2h_map_pct(st, tied_teams, rnd)
         IN  IF r1 # NoResult THEN r1
             ELSE IF r2 # NoResult THEN r2
             ELSE ResolveFromTier3(st, tied_teams, rnd)

calculate_seeding(st, rnd) ==
    LET groups == group_teams_by_record(st, FALSE)
    IN  Flatten(Built([g \in 1..Len(groups) |-> resolve_tie(st, groups[g], rnd)]))

(***************************************************************************)
(* EloCalculator.calculate_win_probability (backend/simulation/elo.py):    *)
(*     1.0 / (1.0 + 10.0 ** ((rating2 - rating1) / 400.0))                 *)
(* The ratings of the model differ by multiples of 400, so that the power  *)
(* is a power of ten and the result an exact fraction <<num, den>>.  In    *)
(* double precision 10.0 ** x raises OverflowError once x exceeds log10 of *)
(* the largest double (308.25...), that is for integer ratings with        *)
(* rating2 - rating1 >= 123302; and 1.0 + 10.0 ** x is 1.0 once the power  *)
(* is below half the spacing of the doubles at 1.0, that is for            *)
(* rating2 - rating1 <= -6382, where the result is exactly 1.0.            *)
(***************************************************************************)
\* the call ended with OverflowError in place of a probability
OverflowError == <<0, 0>>

OverflowDiff == 123302

SaturationDiff == -6382

RECURSIVE Pow10(_)
Pow10(k) == IF k = 0 THEN 1 ELSE 10 * Pow10(k - 1)

calculate_win_probability(rating1, rating2) ==
    LET diff == rating2 - rating1
    IN  IF diff >= OverflowDiff THEN OverflowError
        ELSE IF diff <= SaturationDiff THEN <<1, 1>>
        ELSE IF diff >= 0 THEN <<1, 1 + Pow10(diff \div 400)>>
        ELSE <<Pow10((-diff) \div 400), Pow10((-diff) \div 400) + 1>>

(***************************************************************************)
(* The global generator of the random module.  Its state is the cyclic     *)
(* sequence of the values it returns next; random.random() returns the     *)
(* first and moves on by one.  random.seed(seed) sets a state that the     *)
(* seed alone determines.  The values random.random() returns are taken   *)
(* in thirds: 0, 1/3 and 2/3, kept as their numerators.                    *)
(***************************************************************************)
RandomValues == {0, 1, 2}

GeneratorStates == [1..BEST_OF -> RandomValues]

\* the state after n calls of random.random()
Advance(state, n) ==
    [k \in 1..Len(state) |-> state[((k - 1 + n) % Len(state)) + 1]]

\* random.seed(seed)
SeedState(seed) ==
    [k \in 1..BEST_OF |-> (seed * seed + k * (2 * seed + 1) + k * k) % 3]

\* the outcomes of the tests `random.random() < win_prob` made from state
DrawsFrom(state, win_prob) ==
    [k \in 1..Len(state) |-> FracGT(win_prob, <<state[k], 3>>)]

(***************************************************************************)
(* MatchSimulator (backend/simulation/match_simulator.py).                 *)
(* draws[k] is the outcome of the k-th test `random.random() < win_prob`.  *)
(***************************************************************************)
RECURSIVE PlayMaps(_, _, _, _)
PlayMaps(team1_score, team2_score, draws, k) ==
    IF team1_score < WinsNeeded /\ team2_score < WinsNeeded
    THEN IF draws[k] THEN PlayMaps(team1_score + 1, team2_score, draws, k + 1)
         ELSE PlayMaps(team1_score, team2_score + 1, draws, k + 1)
    ELSE <<team1_score, team2_score>>

\* the call ended with OverflowError in place of a score
OverflowRaised == <<-1, -1>>

\* win_prob = self.elo.calculate_win_probability(rating1, rating2), then
\* the loop over the maps
simulate_match(rating1, rating2, draws) ==
    IF calculate_win_probability(rating1, rating2) = OverflowError
    THEN OverflowRaised
    ELSE PlayMaps(0, 0, draws, 1)

\* the random outcomes explored: team1 sweeps 3-0, team2 wins 3-2
DrawSeqs ==
    { [k \in 1..BEST_OF |-> TRUE],
      [k \in 1..BEST_OF |-> k % 2 = 0] }

(***************************************************************************)
(* Inputs of the simulator                                                 *)
(***************************************************************************)
MatchIds == <<"match_0", "match_1", "match_2", "match_3", "match_4", "match_5">>

AdjustedId == "adj"

\* the team pairs of the schedules explored, one row per schedule shape;
\* a schedule is a prefix (repeated cyclically) of a shape
ScheduleShapes ==
    { << <<"A", "B">>, <<"B", "C">>, <<"C", "A">> >>,
      << <<"A", "B">>, <<"A", "B">>, <<"B", "C">> >>,
      << <<"B", "A">>, <<"A", "B">>, <<"C", "A">> >> }

\* results a loaded match may carry: unplayed, or a score load_matches accepts
BaseScores == { <<None, None>>, <<3, 0>>, <<1, 3>> }

Schedules ==
    UNION { { [i \in 1..n |->
                 LET pair == shape[((i - 1) % Len(shape)) + 1]
                 IN  Match(MatchIds[i], pair[1], pair[2], sc[i][1], sc[i][2])] :
              sc \in [1..n -> BaseScores] } :
            <<shape, n>> \in ScheduleShapes \X (0..MaxMatches) }

\* match lists given to the standings calculator and the tiebreaker directly
TiePairs == { <<"A", "B">>, <<"B", "A">>, <<"B", "C">>, <<"C", "A">> }

TieScores == { <<None, None>>, <<3, 0>>, <<2, 3>> }

TieSchedules ==
    UNION { { [i \in 1..n |->
                 Match(MatchIds[i], ps[i][1][1], ps[i][1][2], ps[i][2][1], ps[i][2][2])] :
              ps \in [1..n -> TiePairs \X TieScores] } :
            n \in 0..MaxMatches }

\* longer match lists.  In the first A meets B twice and C twice while B and
\* C do not meet, so that the opponents of A and of B differ; in the second
\* every pair meets and B and C meet twice, so that two of three teams can
\* be level on a head-to-head tier that sets the third apart
SosShapes ==
    { << <<"A", "B">>, <<"B", "A">>, <<"A", "C">>, <<"C", "A">> >>,
      << <<"A", "B">>, <<"C", "A">>, <<"B", "C">>, <<"C", "B">> >> }

SosScores == { <<None, None>>, <<3, 0>>, <<3, 2>>, <<0, 3>> }

SosSchedules ==
    { [i \in 1..Len(shape) |->
          Match(MatchIds[i], shape[i][1], shape[i][2], sc[i][1], sc[i][2])] :
        <<shape, sc>> \in SosShapes \X [1..4 -> SosScores] }

RatingChoices ==
    { [t \in Teams |-> IF t = "A" THEN 1900 ELSE IF t = "B" THEN 1500 ELSE 1100] }

\* overrides a caller of the simulator may pass: without scores, with a
\* valid score, with a score that is no best-of-5 result
AdjustedScores == { <<None, None>>, <<1, 3>>, <<2, 1>> }

AdjustedPairs == { <<"A", "B">>, <<"B", "A">> }

AdjustedInputs ==
    { Match(AdjustedId, p[1], p[2], sc[1], sc[2]) :
        <<p, sc>> \in AdjustedPairs \X AdjustedScores }

AdjustedLists ==
    UNION { [1..n -> AdjustedInputs] : n \in 0..MaxOverrides }

\* the scores a request may carry for an override: any small integer, or none
PostedScores == (-1..MaxScore) \cup {None}

RequestLists ==
    UNION { [1..n -> { Match(AdjustedId, p[1], p[2], s1, s2) :
                         <<p, s1, s2>> \in AdjustedPairs \X PostedScores \X PostedScores }] :
            n \in 0..MaxOverrides }

\* no response yet
NoResponse == [status |-> 0]

(***************************************************************************)
(* State                                                                   *)
(***************************************************************************)
VARIABLES
    base_teams,        \* SeasonSimulator.base_teams
    base_matches,      \* SeasonSimulator.base_matches
    adjusted_matches,  \* the caller's list of override Match objects
    pc,                \* "idle" or "running" (inside run_simulations' loop)
    \* the variables below belong to the latest call of run_simulations or
    \* get_current_standings: its arguments, locals and return value
    num_iterations,    \* argument of run_simulations
    iteration,         \* trials completed by run_simulations
    results,           \* the counters of run_simulations
    updated_matches,   \* latest pass: sim_matches with the overrides applied
    sim_matches,       \* latest pass: standings.matches at its end
    sim_teams,         \* latest pass: standings.teams at its end
    samples,           \* latest pass: the simulate_match calls made
    final_seeding,     \* latest pass: the ranking
    probabilities,     \* value returned by run_simulations
    current_standings, \* value returned by get_current_standings
    last_call,         \* which operation made the latest pass
    request,           \* app.simulate: data['adjusted_matches'] of the request
    response,          \* app.simulate: outcome of parsing the request
    rng_state,         \* state of the random module's global generator
    last_match,        \* latest call of the match simulator and what it returned
    first_seeded,      \* first call of simulate_match_with_seed and what it returned
    repeated           \* the first seeded call was made again with the same arguments

vars == <<base_teams, base_matches, adjusted_matches, pc, num_iterations,
          iteration, results, updated_matches, sim_matches, sim_teams,
          samples, final_seeding, probabilities, current_standings, last_call,
          request, response, rng_state, last_match, first_seeded,
          repeated>>

\* the variables of the match simulator and the random generator
match_vars == <<rng_state, last_match, first_seeded, repeated>>

\* all other variables
season_vars == <<base_teams, base_matches, adjusted_matches, pc, num_iterations,
                 iteration, results, updated_matches, sim_matches, sim_teams,
                 samples, final_seeding, probabilities, current_standings,
                 last_call, request, response>>

\* no call of the match simulator yet
NoMatch == [rating1 |-> 0, rating2 |-> 0, seed |-> None, score |-> <<None, None>>]


(***************************************************************************)
(* SeasonSimulator (backend/simulation/season_simulator.py).               *)
(*                                                                         *)
(* Match objects are mutable and the lists hold references.  During a      *)
(* call a match object is a base match ("base"), a deep copy of one        *)
(* ("copy"), one of the caller's override objects ("adj"), or a reversed   *)
(* Match built by _apply_user_adjustments ("rev").  A store gives every    *)
(* object its current value; a match list is a sequence of references      *)
(* [kind, idx].                                                            *)
(***************************************************************************)
Ref(kind, idx) == [kind |-> kind, idx |-> idx]

Deref(store, ref) == store[ref.kind][ref.idx]

DerefAll(store, refs) == Built([i \in 1..Len(refs) |-> Deref(store, refs[i])])

\* match.team1_score = s1; match.team2_score = s2
SetScores(store, ref, s1, s2) ==
    [store EXCEPT ![ref.kind][ref.idx] =
        [@ EXCEPT !.team1_score = s1, !.team2_score = s2]]

_create_fresh_teams ==
    [name \in DOMAIN base_teams |-> Team(base_teams[name].elo_rating)]

\* the reversed Match built for the (team2, team1) key
ReversedMatch(m) == Match(m.id, m.team2, m.team1, m.team2_score, m.team1_score)

\* sim_matches = self.base_matches in place of copy.deepcopy(self.base_matches)
BaseMatchRefs == [i \in 1..Len(base_matches) |-> Ref("base", i)]

\* copy.deepcopy(self.base_matches): a list of new objects
DeepCopyRefs == [i \in 1..Len(base_matches) |-> Ref("copy", i)]

\* the objects of one pass: the base matches, their deep copies, the
\* caller's adjusted_matches, and one reversed Match per adjusted match
NewStore ==
    [base |-> base_matches,
     copy |-> base_matches,
     adj  |-> adjusted_matches,
     rev  |-> [j \in 1..Len(adjusted_matches) |-> ReversedMatch(adjusted_matches[j])]]

DictPut(d, key, value) ==
    [k \in (DOMAIN d) \cup {key} |-> IF k = key THEN value ELSE d[k]]

\* adjustments = {(m.team1, m.team2): m for m in adjusted_matches}
RECURSIVE ForwardKeys(_, _, _)
ForwardKeys(d, adjusted, j) ==
    IF j > Len(adjusted) THEN d
    ELSE ForwardKeys(DictPut(d, <<adjusted[j].team1, adjusted[j].team2>>, Ref("adj", j)),
                     adjusted, j + 1)

\* variant: no entries are added for the reversed pairs
ForwardKeysOnly(d, adjusted, j) == d

\* for m in adjusted_matches: adjustments[(m.team2, m.team1)] = Match(...)
RECURSIVE ReverseKeys(_, _, _)
ReverseKeys(d, adjusted, j) ==
    IF j > Len(adjusted) THEN d
    ELSE ReverseKeys(DictPut(d, <<adjusted[j].team2, adjusted[j].team1>>, Ref("rev", j)),
                     adjusted, j + 1)

\* matches: the list of references to update; returns the updated list
_apply_user_adjustments(store, matches) ==
    LET adjustments == ReverseKeys(ForwardKeys(EmptyMap, store.adj, 1), store.adj, 1)
    IN  Built([i \in 1..Len(matches) |->
            LET match == Deref(store, matches[i])
                key == <<match.team1, match.team2>>
            IN  IF key \in DOMAIN adjustments THEN adjustments[key] ELSE matches[i]])

\* sim_matches of a call: the deep copies, with the overrides applied
SimMatchRefs(store) ==
    IF store.adj # <<>> THEN _apply_user_adjustments(store, DeepCopyRefs)
    ELSE DeepCopyRefs

\* the positions of the list at which _simulate_remaining_matches samples
SampledPositions(store, refs) ==
    {i \in 1..Len(refs) :
        /\ ~is_completed(Deref(store, refs[i]))
        /\ \A k \in 1..(i - 1) : refs[k] # refs[i]}

\* variant: the loop samples every match, decided or not
RECURSIVE SimulateEveryMatchFrom(_, _, _, _)
SimulateEveryMatchFrom(sim, refs, draws, i) ==
    IF i > Len(refs) THEN sim
    ELSE LET match == Deref(sim.store, refs[i])
             team1 == sim.teams[match.team1]
             team2 == sim.teams[match.team2]
             drawn == IF i \in DOMAIN draws THEN draws[i]
                      ELSE [k \in 1..BEST_OF |-> FALSE]
             score == simulate_match(team1.elo_rating, team2.elo_rating, drawn)
             played == [match EXCEPT !.team1_score = score[1],
                                     !.team2_score = score[2]]
         IN  SimulateEveryMatchFrom(
                 [store   |-> SetScores(sim.store, refs[i], score[1], score[2]),
                  teams   |-> ApplyMatchToTeams(sim.teams, played),
                  samples |-> Append(sim.samples,
                                 [pos |-> i,
                                  rating1 |-> team1.elo_rating,
                                  rating2 |-> team2.elo_rating,
                                  team1_score |-> score[1],
                                  team2_score |-> score[2]])],
                 refs, draws, i + 1)

\* the loop of _simulate_remaining_matches from position i on;
\* sim is [store, teams, samples]
RECURSIVE SimulateFrom(_, _, _, _)
SimulateFrom(sim, refs, draws, i) ==
    IF i > Len(refs) THEN sim
    ELSE LET match == Deref(sim.store, refs[i])
         IN  IF is_completed(match) THEN SimulateFrom(sim, refs, draws, i + 1)
             ELSE LET team1 == sim.teams[match.team1]
                      team2 == sim.teams[match.team2]
                      score == simulate_match(team1.elo_rating, team2.elo_rating, draws[i])
                      played == [match EXCEPT !.team1_score = score[1],
                                              !.team2_score = score[2]]
                  IN  SimulateFrom(
                          [store   |-> SetScores(sim.store, refs[i], score[1], score[2]),
                           teams   |-> ApplyMatchToTeams(sim.teams, played),
                           samples |-> Append(sim.samples,
                                          [pos |-> i,
                                           rating1 |-> team1.elo_rating,
                                           rating2 |-> team2.elo_rating,
                                           team1_score |-> score[1],
                                           team2_score |-> score[2]])],
                          refs, draws, i + 1)

_simulate_remaining_matches(store, refs, teams, draws) ==
    SimulateFrom([store |-> store, teams |-> teams, samples |-> <<>>], refs, draws, 1)

\* one pass of the body of run_simulations' loop, up to the sampling
RunTrial(draws) ==
    LET store0  == NewStore
        refs    == SimMatchRefs(store0)
        teams0  == update_team_records_from_matches(
                       SeasonStandings(_create_fresh_teams, DerefAll(store0, refs)))
        sim     == _simulate_remaining_matches(store0, refs, teams0, draws)
        matches == DerefAll(sim.store, refs)
    IN  [updated  |-> DerefAll(store0, refs),
         matches  |-> matches,
         teams    |-> sim.teams,
         base     |-> sim.store.base,
         adjusted |-> sim.store.adj,
         samples  |-> sim.samples]

SeedLabels ==
    <<"seed_1", "seed_2", "seed_3", "seed_4", "seed_5", "seed_6", "seed_7",
      "seed_8", "seed_9", "seed_10", "seed_11", "seed_12">>

Incr(counts, key) ==
    IF key \in DOMAIN counts THEN [counts EXCEPT ![key] = @ + 1]
    ELSE DictPut(counts, key, 1)

\* results[team_name][f'seed_{seed}'] = 1 in place of += 1
RecordSeedAssigned(res, seed, team_name) ==
    LET c0 == IF team_name \in DOMAIN res THEN res[team_name] ELSE EmptyMap
        c1 == DictPut(c0, SeedLabels[seed], 1)
        c2 == IF seed <= PLAY_IN_TEAMS THEN Incr(c1, "make_play_ins") ELSE c1
        c3 == IF seed <= BRACKET_TEAMS THEN Incr(c2, "make_bracket") ELSE c2
    IN  DictPut(res, team_name, c3)

\* variant: both cutoff counters are incremented whatever the seed
RecordSeedWithoutCutoffs(res, seed, team_name) ==
    LET c0 == IF team_name \in DOMAIN res THEN res[team_name] ELSE EmptyMap
        c1 == Incr(c0, SeedLabels[seed])
        c2 == Incr(c1, "make_play_ins")
        c3 == Incr(c2, "make_bracket")
    IN  DictPut(res, team_name, c3)

\* the body of `for seed, team_name in enumerate(final_seeding, 1)`
RecordSeed(res, seed, team_name) ==
    LET c0 == IF team_name \in DOMAIN res THEN res[team_name] ELSE EmptyMap
        c1 == Incr(c0, SeedLabels[seed])
        c2 == IF seed <= PLAY_IN_TEAMS THEN Incr(c1, "make_play_ins") ELSE c1
        c3 == IF seed <= BRACKET_TEAMS THEN Incr(c2, "make_bracket") ELSE c2
    IN  DictPut(res, team_name, c3)

RECURSIVE RecordResults(_, _, _)
RecordResults(res, seeding, seed) ==
    IF seed > Len(seeding) THEN res
    ELSE RecordResults(RecordSeed(res, seed, seeding[seed]), seeding, seed + 1)

\* variant: the table is laid out for the configured team names, whether or
\* not the team map holds them
ProbabilitiesForAllNames(res, n) ==
    [team_name \in Teams |->
        IF team_name \in DOMAIN res
        THEN [key \in DOMAIN res[team_name] |-> <<res[team_name][key], n>>]
        ELSE EmptyMap]

\* count / num_iterations, kept as the fraction <<count, num_iterations>>
_calculate_probabilities(res, n) ==
    [team_name \in DOMAIN res |->
        [key \in DOMAIN res[team_name] |-> <<res[team_name][key], n>>]]

\* records "W-L" are kept as the pair <<W, L>>
match_record(t) == <<t.match_wins, t.match_losses>>

map_record(t) == <<t.map_wins, t.map_losses>>

(***************************************************************************)
(* Initial state and actions                                               *)
(***************************************************************************)
NoLocals ==
    /\ updated_matches' = <<>>
    /\ sim_matches' = <<>>
    /\ sim_teams' = EmptyMap
    /\ samples' = <<>>
    /\ final_seeding' = <<>>

Init ==
    /\ base_teams \in {[t \in Teams |-> Team(r[t])] : r \in RatingChoices}
    /\ base_matches \in Schedules
    /\ adjusted_matches = <<>>
    /\ pc = "idle"
    /\ num_iterations = 0
    /\ iteration = 0
    /\ results = EmptyMap
    /\ updated_matches = <<>>
    /\ sim_matches = <<>>
    /\ sim_teams = EmptyMap
    /\ samples = <<>>
    /\ final_seeding = <<>>
    /\ probabilities = EmptyMap
    /\ current_standings = <<>>
    /\ last_call = "none"
    /\ request = <<>>
    /\ response = NoResponse
    /\ rng_state = SeedState(0)
    /\ last_match = NoMatch
    /\ first_seeded = NoMatch
    /\ repeated = FALSE

\* a caller starts afresh with a new list of override Match objects
NewAdjustments(adj) ==
    /\ pc = "idle"
    /\ adjusted_matches' = adj
    /\ num_iterations' = 0
    /\ iteration' = 0
    /\ results' = EmptyMap
    /\ NoLocals
    /\ probabilities' = EmptyMap
    /\ current_standings' = <<>>
    /\ last_call' = "none"
    /\ UNCHANGED match_vars
    /\ UNCHANGED <<base_teams, base_matches, pc, request, response>>

\* run_simulations(n, adjusted_matches) is entered: results = defaultdict(...)
StartRunSimulations(n) ==
    /\ pc = "idle"
    /\ pc' = "running"
    /\ num_iterations' = n
    /\ iteration' = 0
    /\ results' = EmptyMap
    /\ NoLocals
    /\ probabilities' = EmptyMap
    /\ current_standings' = <<>>
    /\ last_call' = "none"
    /\ UNCHANGED match_vars
    /\ UNCHANGED <<base_teams, base_matches, adjusted_matches, request, response>>

\* one iteration of the loop of run_simulations
Trial ==
    /\ pc = "running"
    /\ iteration < num_iterations
    /\ \E draws \in [SampledPositions(NewStore, SimMatchRefs(NewStore)) -> DrawSeqs] :
          LET t == RunTrial(draws)
              standings == SeasonStandings(t.teams, t.matches)
          IN  /\ base_matches' = t.base
              /\ adjusted_matches' = t.adjusted
              /\ updated_matches' = t.updated
              /\ sim_matches' = t.matches
              /\ sim_teams' = t.teams
              /\ samples' = t.samples
              /\ final_seeding' \in
                     {calculate_seeding(standings, rnd) : rnd \in Orderings(Teams)}
              /\ results' = RecordResults(results, final_seeding', 1)
    /\ iteration' = iteration + 1
    /\ last_call' = "trial"
    /\ UNCHANGED match_vars
    /\ UNCHANGED <<base_teams, pc, num_iterations, probabilities,
                   current_standings, request, response>>

\* the loop is over: return self._calculate_probabilities(results, num_iterations)
FinishRunSimulations ==
    /\ pc = "running"
    /\ iteration = num_iterations
    /\ probabilities' = _calculate_probabilities(results, num_iterations)
    /\ pc' = "idle"
    /\ UNCHANGED match_vars
    /\ UNCHANGED <<base_teams, base_matches, adjusted_matches, num_iterations,
                   iteration, results, updated_matches, sim_matches, sim_teams,
                   samples, final_seeding, current_standings, last_call,
                   request, response>>

\* get_current_standings(adjusted_matches)
GetCurrentStandings ==
    /\ pc = "idle"
    /\ LET store   == NewStore
           refs    == SimMatchRefs(store)
           matches == DerefAll(store, refs)
           teams   == update_team_records_from_matches(
                          SeasonStandings(_create_fresh_teams, matches))
       IN  /\ updated_matches' = matches
           /\ sim_matches' = matches
           /\ sim_teams' = teams
           /\ final_seeding' \in
                  {calculate_seeding(SeasonStandings(teams, matches), rnd) :
                      rnd \in Orderings(Teams)}
           /\ current_standings' =
                  [k \in 1..Len(final_seeding') |->
                      <<final_seeding'[k], match_record(teams[final_seeding'[k]]),
                        map_record(teams[final_seeding'[k]])>>]
    /\ samples' = <<>>
    /\ last_call' = "standings"
    /\ num_iterations' = 0
    /\ iteration' = 0
    /\ results' = EmptyMap
    /\ probabilities' = EmptyMap
    /\ UNCHANGED match_vars
    /\ UNCHANGED <<base_teams, base_matches, adjusted_matches, pc, request,
                   response>>

Next ==
    \/ \E adj \in AdjustedLists : NewAdjustments(adj)
    \/ \E n \in 0..MaxIterations : StartRunSimulations(n)
    \/ Trial
    \/ FinishRunSimulations
    \/ GetCurrentStandings

Spec == Init /\ [][Next]_vars

(***************************************************************************)
(* The standings calculator and the tiebreaker on their own: a match list  *)
(* is given, the records are rebuilt from it and the seeding is computed   *)
(* (get_current_standings without overrides).                              *)
(***************************************************************************)
InitTie ==
    /\ base_teams \in {[t \in Teams |-> Team(r[t])] : r \in RatingChoices}
    /\ base_matches \in TieSchedules \cup SosSchedules
    /\ adjusted_matches = <<>>
    /\ pc = "idle"
    /\ num_iterations = 0
    /\ iteration = 0
    /\ results = EmptyMap
    /\ updated_matches = <<>>
    /\ sim_matches = <<>>
    /\ sim_teams = EmptyMap
    /\ samples = <<>>
    /\ final_seeding = <<>>
    /\ probabilities = EmptyMap
    /\ current_standings = <<>>
    /\ last_call = "none"
    /\ request = <<>>
    /\ response = NoResponse
    /\ rng_state = SeedState(0)
    /\ last_match = NoMatch
    /\ first_seeded = NoMatch
    /\ repeated = FALSE

NextTie == GetCurrentStandings

SpecTie == InitTie /\ [][NextTie]_vars

(***************************************************************************)
(* The simulator built on a smaller league: the team map holds any proper  *)
(* subset of the teams (none at all included) and the schedule names teams *)
(* of the map only, while the overrides a caller passes still name A and   *)
(* B, whether or not the map holds them.                                   *)
(***************************************************************************)
Leagues == (SUBSET Teams) \ {Teams}

LeagueSchedules(league) ==
    { ms \in TieSchedules :
        \A i \in 1..Len(ms) : ms[i].team1 \in league /\ ms[i].team2 \in league }

InitLeague ==
    /\ \E league \in Leagues :
          /\ base_teams \in {[t \in league |-> Team(r[t])] : r \in RatingChoices}
          /\ base_matches \in LeagueSchedules(league)
    /\ adjusted_matches = <<>>
    /\ pc = "idle"
    /\ num_iterations = 0
    /\ iteration = 0
    /\ results = EmptyMap
    /\ updated_matches = <<>>
    /\ sim_matches = <<>>
    /\ sim_teams = EmptyMap
    /\ samples = <<>>
    /\ final_seeding = <<>>
    /\ probabilities = EmptyMap
    /\ current_standings = <<>>
    /\ last_call = "none"
    /\ request = <<>>
    /\ response = NoResponse
    /\ rng_state = SeedState(0)
    /\ last_match = NoMatch
    /\ first_seeded = NoMatch
    /\ repeated = FALSE

NextLeague ==
    \/ \E adj \in AdjustedLists : NewAdjustments(adj)
    \/ \E n \in 0..MaxIterations : StartRunSimulations(n)
    \/ Trial
    \/ FinishRunSimulations
    \/ GetCurrentStandings

SpecLeague == InitLeague /\ [][NextLeague]_vars

(***************************************************************************)
(* The counting of run_simulations on a full league of twelve teams with   *)
(* no match played: every team has the same record, the resolver's last    *)
(* tier shuffles the group, and any order of the teams is a seeding a      *)
(* trial may end with.  The orders taken here are the rotations of the     *)
(* team list, so that every team takes every seed.                         *)
(***************************************************************************)
LeagueNames ==
    <<"T01", "T02", "T03", "T04", "T05", "T06",
      "T07", "T08", "T09", "T10", "T11", "T12">>

LeagueSeedings ==
    { [k \in 1..Len(LeagueNames) |-> LeagueNames[((k - 1 + r) % Len(LeagueNames)) + 1]] :
        r \in 0..(Len(LeagueNames) - 1) }

InitCount ==
    /\ base_teams = [t \in Range(LeagueNames) |-> Team(1500)]
    /\ base_matches = <<>>
    /\ adjusted_matches = <<>>
    /\ pc = "idle"
    /\ num_iterations = 0
    /\ iteration = 0
    /\ results = EmptyMap
    /\ updated_matches = <<>>
    /\ sim_matches = <<>>
    /\ sim_teams = EmptyMap
    /\ samples = <<>>
    /\ final_seeding = <<>>
    /\ probabilities = EmptyMap
    /\ current_standings = <<>>
    /\ last_call = "none"
    /\ request = <<>>
    /\ response = NoResponse
    /\ rng_state = SeedState(0)
    /\ last_match = NoMatch
    /\ first_seeded = NoMatch
    /\ repeated = FALSE

\* one iteration of the loop of run_simulations on the league: fresh teams,
\* nothing to apply or to sample, a shuffled seeding, the recording
CountTrial ==
    /\ pc = "running"
    /\ iteration < num_iterations
    /\ updated_matches' = <<>>
    /\ sim_matches' = <<>>
    /\ sim_teams' = _create_fresh_teams
    /\ samples' = <<>>
    /\ final_seeding' \in LeagueSeedings
    /\ results' = RecordResults(results, final_seeding', 1)
    /\ iteration' = iteration + 1
    /\ last_call' = "trial"
    /\ UNCHANGED match_vars
    /\ UNCHANGED <<base_teams, base_matches, adjusted_matches, pc,
                   num_iterations, probabilities, current_standings, request,
                   response>>

NextCount ==
    \/ \E n \in 0..MaxIterations : StartRunSimulations(n)
    \/ CountTrial
    \/ FinishRunSimulations

SpecCount == InitCount /\ [][NextCount]_vars

(***************************************************************************)
(* The /api/simulate handler up to its validation of the overrides         *)
(* (app.py): the request's overrides are parsed one by one, and a decided  *)
(* score that Match.is_valid_score refuses ends the request with a 400     *)
(* naming the pair and the scores.  DataLoader.load_matches makes the same *)
(* test on every row of the schedule file.                                 *)
(***************************************************************************)
RECURSIVE ParseFrom(_, _, _)
ParseFrom(data, parsed, j) ==
    IF j > Len(data) THEN [status |-> 200, adjusted_matches |-> parsed]
    ELSE LET match == data[j]
         IN  IF is_completed(match) /\ ~is_valid_score(match)
             THEN [status |-> 400, team1 |-> match.team1, team2 |-> match.team2,
                   team1_score |-> match.team1_score,
                   team2_score |-> match.team2_score]
             ELSE ParseFrom(data, Append(parsed, match), j + 1)

\* simulate(): the loop over data['adjusted_matches']
ParseAdjustedMatches ==
    /\ pc = "idle"
    /\ response = NoResponse
    /\ response' = ParseFrom(request, <<>>, 1)
    /\ adjusted_matches' =
           IF response'.status = 200 THEN response'.adjusted_matches
           ELSE adjusted_matches
    /\ UNCHANGED match_vars
    /\ UNCHANGED <<base_teams, base_matches, pc, num_iterations, iteration,
                   results, updated_matches, sim_matches, sim_teams, samples,
                   final_seeding, probabilities, current_standings, last_call,
                   request>>

InitValidate ==
    /\ base_teams \in {[t \in Teams |-> Team(r[t])] : r \in RatingChoices}
    /\ base_matches = <<>>
    /\ adjusted_matches = <<>>
    /\ pc = "idle"
    /\ num_iterations = 0
    /\ iteration = 0
    /\ results = EmptyMap
    /\ updated_matches = <<>>
    /\ sim_matches = <<>>
    /\ sim_teams = EmptyMap
    /\ samples = <<>>
    /\ final_seeding = <<>>
    /\ probabilities = EmptyMap
    /\ current_standings = <<>>
    /\ last_call = "none"
    /\ request \in RequestLists
    /\ response = NoResponse
    /\ rng_state = SeedState(0)
    /\ last_match = NoMatch
    /\ first_seeded = NoMatch
    /\ repeated = FALSE

NextValidate == ParseAdjustedMatches

SpecValidate == InitValidate /\ [][NextValidate]_vars

(***************************************************************************)
(* The match simulator on its own: calls of simulate_match and of          *)
(* simulate_match_with_seed, and draws other code makes from the same      *)
(* global generator in between.                                            *)
(***************************************************************************)
MatchRatings ==
    { <<1500, 1500>>, <<1700, 1300>>, <<1300, 1700>>, <<0, 124000>>, <<124000, 0>> }

Seeds == 0..MaxSeed

\* the number of random.random() calls a simulate_match that returned score made
DrawsMade(score) == IF score = OverflowRaised THEN 0 ELSE score[1] + score[2]

\* simulator.simulate_match(rating1, rating2)
SimulateMatch(rating1, rating2) ==
    LET win_prob == calculate_win_probability(rating1, rating2)
        score == simulate_match(rating1, rating2, DrawsFrom(rng_state, win_prob))
    IN  /\ last_match' = [rating1 |-> rating1, rating2 |-> rating2,
                          seed |-> None, score |-> score]
        /\ rng_state' = Advance(rng_state, DrawsMade(score))
        /\ UNCHANGED <<first_seeded, repeated>>
        /\ UNCHANGED season_vars

\* two calls with the same ratings and the same seed
SameArguments(c, d) ==
    /\ c.rating1 = d.rating1
    /\ c.rating2 = d.rating2
    /\ c.seed = d.seed

\* variant: random.seed(seed) is left out
SimulateMatchWithoutSeeding(rating1, rating2, seed) ==
    LET win_prob == calculate_win_probability(rating1, rating2)
        result == simulate_match(rating1, rating2, DrawsFrom(rng_state, win_prob))
        call == [rating1 |-> rating1, rating2 |-> rating2,
                 seed |-> seed, score |-> result]
    IN  /\ last_match' = call
        /\ first_seeded' = IF first_seeded = NoMatch THEN call ELSE first_seeded
        /\ repeated' = (repeated \/ SameArguments(call, first_seeded))
        /\ UNCHANGED rng_state
        /\ UNCHANGED season_vars

\* simulator.simulate_match_with_seed(rating1, rating2, seed): getstate, seed,
\* simulate_match, setstate; an exception of simulate_match leaves before
\* setstate
simulate_match_with_seed(rating1, rating2, seed) ==
    LET state == rng_state
        win_prob == calculate_win_probability(rating1, rating2)
        result == simulate_match(rating1, rating2, DrawsFrom(SeedState(seed), win_prob))
        call == [rating1 |-> rating1, rating2 |-> rating2,
                 seed |-> seed, score |-> result]
    IN  /\ last_match' = call
        /\ first_seeded' = IF first_seeded = NoMatch THEN call ELSE first_seeded
        /\ repeated' = (repeated \/ SameArguments(call, first_seeded))
        /\ rng_state' = IF result = OverflowRaised THEN SeedState(seed) ELSE state
        /\ UNCHANGED season_vars

\* some other code calls random.random()
RandomCall ==
    /\ rng_state' = Advance(rng_state, 1)
    /\ UNCHANGED <<last_match, first_seeded, repeated>>
    /\ UNCHANGED season_vars

InitMatch ==
    /\ base_teams \in {[t \in Teams |-> Team(r[t])] : r \in RatingChoices}
    /\ base_matches = <<>>
    /\ adjusted_matches = <<>>
    /\ pc = "idle"
    /\ num_iterations = 0
    /\ iteration = 0
    /\ results = EmptyMap
    /\ updated_matches = <<>>
    /\ sim_matches = <<>>
    /\ sim_teams = EmptyMap
    /\ samples = <<>>
    /\ final_seeding = <<>>
    /\ probabilities = EmptyMap
    /\ current_standings = <<>>
    /\ last_call = "none"
    /\ request = <<>>
    /\ response = NoResponse
    /\ rng_state \in GeneratorStates
    /\ last_match = NoMatch
    /\ first_seeded = NoMatch
    /\ repeated = FALSE

NextMatch ==
    \/ \E r \in MatchRatings : SimulateMatch(r[1], r[2])
    \/ \E r \in MatchRatings, seed \in Seeds : simulate_match_with_seed(r[1], r[2], seed)
    \/ RandomCall

SpecMatch == InitMatch /\ [][NextMatch]_vars

(***************************************************************************)
(* Helpers of the properties                                               *)
(***************************************************************************)
\* the standings object of the latest pass
LatestStandings == SeasonStandings(sim_teams, sim_matches)

HasPass == last_call # "none"

\* the groups resolve_tie may be given: lists of two or more distinct teams
TieGroups ==
    {g \in UNION {[1..n -> Teams] : n \in 2..NumTeams} :
        \A i, j \in 1..Len(g) : i # j => g[i] # g[j]}

Position(seeding, t) == CHOOSE k \in 1..Len(seeding) : seeding[k] = t

\* more than one distinct value among the group's metric values
Differ(metric_values) ==
    \E t, u \in DOMAIN metric_values : ~FracEQ(metric_values[t], metric_values[u])

\* the metric tier `tier` (1..6) reads for every team of the group, NoResult
\* when the tier is skipped
TierMetric(st, teams, tier) ==
    IF tier \in {1, 2} /\ ~all_teams_played_each_other(st, teams) THEN NoResult
    ELSE Built([t \in Range(teams) |->
            CASE tier = 1 -> LET r == get_head_to_head_record(st, teams, FALSE)[t]
                             IN  Pct(r[1], r[1] + r[2])
              [] tier = 2 -> LET r == get_head_to_head_record(st, teams, TRUE)[t]
                             IN  Pct(r[1], r[1] + r[2])
              [] tier = 3 -> match_win_pct(st.teams[t])
              [] tier = 4 -> map_win_pct(st.teams[t])
              [] tier = 5 -> calculate_strength_of_schedule(st, t, FALSE)
              [] tier = 6 -> calculate_strength_of_schedule(st, t, TRUE)])

\* the tier is not skipped and its metric takes more than one value
Separates(st, teams, tier) ==
    /\ TierMetric(st, teams, tier) # NoResult
    /\ Differ(TierMetric(st, teams, tier))

\* the first of tiers 1..6 that separates the group, 7 when none does
SeparatingTier(st, teams) ==
    IF \E tier \in 1..6 : Separates(st, teams, tier)
    THEN CHOOSE tier \in 1..6 :
            /\ Separates(st, teams, tier)
            /\ \A lower \in 1..(tier - 1) : ~Separates(st, teams, lower)
    ELSE 7

\* what the tier alone returns for the group
ApplyTier(st, teams, rnd, tier) ==
    CASE tier = 1 -> _apply_tier1_h2h_match_pct(st, teams, rnd)
      [] tier = 2 -> _apply_tier2_h2h_map_pct(st, teams, rnd)
      [] tier = 3 -> _apply_tier3_overall_match_pct(st, teams, rnd)
      [] tier = 4 -> _apply_tier4_overall_map_pct(st, teams, rnd)
      [] tier = 5 -> _apply_tier5_sos_match(st, teams, rnd)
      [] tier = 6 -> _apply_tier6_sos_map(st, teams, rnd)
      [] tier = 7 -> _apply_tier7_seed_specific(st, teams, rnd)

(***************************************************************************)
(* Properties                                                              *)
(***************************************************************************)

\* C1: calculate_seeding returns a ranking whose length is the number of
\* teams and in which every team appears exactly once; neither the initial
\* grouping, nor the recursive resolution of any tied group, nor the tier-7
\* shuffle drops or duplicates a team.
C1_SeedingIsRanking ==
    HasPass =>
        /\ Len(final_seeding) = NumTeams
        /\ \A t \in Teams :
              Cardinality({k \in 1..Len(final_seeding) : final_seeding[k] = t}) = 1
        /\ Range(Flatten(group_teams_by_record(LatestStandings, FALSE))) = Teams
        /\ \A g \in TieGroups, rnd \in Orderings(Teams) :
              LET order == resolve_tie(LatestStandings, g, rnd)
              IN  /\ Len(order) = Len(g)
                  /\ Range(order) = Range(g)

\* C1 witness: a ranking was computed and there is a group of three teams
\* that a tier separates only in part, so that the remaining pair is resolved
\* by the recursive call
C1_Witness ==
    /\ HasPass
    /\ Len(final_seeding) = NumTeams
    /\ \E g \in TieGroups :
          /\ Len(g) = NumTeams
          /\ LET win_pcts == [t \in Range(g) |-> match_win_pct(sim_teams[t])]
             IN  /\ ~all_teams_played_each_other(LatestStandings, g)
                 /\ Len(MetricGroups(SortedDesc(g, win_pcts), win_pcts)) = 2

\* the number of decided matches of ms that w won against l
Beats(ms, w, l) ==
    Cardinality({i \in 1..Len(ms) :
                    is_completed(ms[i]) /\ winner(ms[i]) = w /\ loser(ms[i]) = l})

\* three series, all decided: x beat y and z, y beat z
TransitiveSeason(ms, x, y, z) ==
    /\ Len(ms) = 3
    /\ \A i \in 1..Len(ms) : is_completed(ms[i])
    /\ Beats(ms, x, y) = 1
    /\ Beats(ms, x, z) = 1
    /\ Beats(ms, y, z) = 1

\* C11: when the three series of a 3-team schedule are decided transitively
\* (x beat y and z, y beat z) and no override is given, every trial of
\* run_simulations ranks x, y, z in this order whatever the random draws
\* are, every trial so far counted x first, y second and z third, and the
\* returned probabilities of these three ranks are exactly 1.
C11_TransitiveSeasonIsDeterministic ==
    \A x, y, z \in Teams :
        (/\ last_call = "trial"
         /\ adjusted_matches = <<>>
         /\ TransitiveSeason(base_matches, x, y, z)) =>
            /\ final_seeding = <<x, y, z>>
            /\ samples = <<>>
            /\ results[x] = [l \in {"seed_1", "make_play_ins", "make_bracket"} |-> iteration]
            /\ results[y] = [l \in {"seed_2", "make_play_ins", "make_bracket"} |-> iteration]
            /\ results[z] = [l \in {"seed_3", "make_play_ins", "make_bracket"} |-> iteration]
            /\ pc = "idle" =>
                   /\ FracEQ(probabilities[x]["seed_1"], <<1, 1>>)
                   /\ FracEQ(probabilities[y]["seed_2"], <<1, 1>>)
                   /\ FracEQ(probabilities[z]["seed_3"], <<1, 1>>)

\* C11 witness: a run of two trials over a transitively decided schedule in
\* which the lowest-rated team beat both others has returned
C11_Witness ==
    /\ last_call = "trial"
    /\ pc = "idle"
    /\ num_iterations = 2
    /\ adjusted_matches = <<>>
    /\ TransitiveSeason(base_matches, "C", "B", "A")
    /\ "C" \in DOMAIN probabilities
    /\ probabilities["C"]["seed_1"] = <<2, 2>>

\* a best-of-5 result: exactly one side has 3, both are within 0..3
IsBestOf5Result(s1, s2) ==
    /\ (s1 = WinsNeeded) # (s2 = WinsNeeded)
    /\ 0 <= s1 /\ s1 <= WinsNeeded
    /\ 0 <= s2 /\ s2 <= WinsNeeded

\* C12: every call of simulate_match, whatever the ratings and the random
\* draws are, returns a score in which exactly one side is 3 and the other
\* is below 3, after at most 5 maps.
C12_SimulatedScoreIsBestOf5 ==
    (last_match # NoMatch /\ last_match.seed = None) =>
        LET score == last_match.score
        IN  /\ IsBestOf5Result(score[1], score[2])
            /\ ~(score[1] = WinsNeeded /\ score[2] = WinsNeeded)
            /\ score[1] + score[2] <= BEST_OF

\* C21: for every pair of ratings, the probability that the first team wins
\* a map and the probability that the second does add up to 1 (within
\* 1e-9), and for equal ratings the probability is exactly 1/2
C21_WinProbabilitiesSumToOne ==
    last_match /= NoMatch =>
        LET p == calculate_win_probability(last_match.rating1, last_match.rating2)
            q == calculate_win_probability(last_match.rating2, last_match.rating1)
        IN  /\ p /= OverflowError
            /\ q /= OverflowError
            /\ WithinTol(FracAdd(p, q), <<1, 1>>, 1000000000)
            /\ last_match.rating1 = last_match.rating2 => p = <<1, 2>>

\* C13: a call of simulate_match_with_seed returns what the first call with
\* the same ratings and the same seed returned, whatever calls of
\* simulate_match, of simulate_match_with_seed or of random.random() were
\* made before and in between.
C13_SeededMatchIsReproducible ==
    (last_match.seed # None /\ SameArguments(last_match, first_seeded)) =>
        last_match.score = first_seeded.score

\* C13 witness: a second call has returned the five-map score of the first
\* call with the same arguments although the generator is in a state from
\* which an unseeded call would return another score
C13_Witness ==
    /\ last_match.seed # None
    /\ repeated
    /\ last_match = first_seeded
    /\ last_match.score[1] + last_match.score[2] = BEST_OF
    /\ rng_state # SeedState(last_match.seed)
    /\ simulate_match(last_match.rating1, last_match.rating2,
                      DrawsFrom(rng_state, calculate_win_probability(
                          last_match.rating1, last_match.rating2)))
           # last_match.score

\* C29: a call of simulate_match_with_seed leaves the global generator in
\* the state it found, so that the draws made after it are the ones that
\* would have been made without it
C29_SeededCallRestoresGenerator ==
    [][(\E r \in MatchRatings, seed \in Seeds :
            simulate_match_with_seed(r[1], r[2], seed))
        => rng_state' = rng_state]_vars

\* C14: get_current_standings is deterministic: a call made right after
\* another with the same base matches and the same overrides returns the
\* same ordered list.
C14_StandingsAreDeterministic ==
    [][(/\ last_call = "standings"
        /\ last_call' = "standings"
        /\ base_matches' = base_matches
        /\ adjusted_matches' = adjusted_matches) =>
           current_standings' = current_standings]_vars

\* an override names the two teams of scheduled match i
Overridden(i) ==
    \E j \in 1..Len(adjusted_matches) :
        {adjusted_matches[j].team1, adjusted_matches[j].team2}
            = {base_matches[i].team1, base_matches[i].team2}

\* C15: in every trial of run_simulations a match that is decided once the
\* overrides are applied keeps exactly that result (a decided base match
\* that no override names keeps its base result), every match is decided at
\* the end of the trial, and only matches that were undecided are sampled,
\* each taking the sampled score.
C15_DecidedResultsRespected ==
    last_call = "trial" =>
        /\ Len(sim_matches) = Len(base_matches)
        /\ Len(updated_matches) = Len(base_matches)
        /\ \A i \in 1..Len(sim_matches) :
               /\ is_completed(sim_matches[i])
               /\ is_completed(updated_matches[i]) => sim_matches[i] = updated_matches[i]
               /\ (is_completed(base_matches[i]) /\ ~Overridden(i)) =>
                      sim_matches[i] = base_matches[i]
        /\ \A k \in 1..Len(samples) :
               /\ ~is_completed(updated_matches[samples[k].pos])
               /\ sim_matches[samples[k].pos].team1_score = samples[k].team1_score
               /\ sim_matches[samples[k].pos].team2_score = samples[k].team2_score

\* C15 witness: a trial over a schedule with a decided match no override
\* names, a match given a decided override, and an undecided match that
\* was sampled
C15_Witness ==
    /\ last_call = "trial"
    /\ Len(samples) >= 1
    /\ \E i \in 1..Len(base_matches) :
          is_completed(base_matches[i]) /\ ~Overridden(i)
    /\ \E i \in 1..Len(base_matches) :
          /\ Overridden(i)
          /\ is_completed(updated_matches[i])
          /\ updated_matches[i].id = AdjustedId
          /\ \A k \in 1..Len(samples) : samples[k].pos # i

\* the maps team won in match m, None when m is undecided
MapsOf(m, team) ==
    IF ~is_completed(m) THEN None
    ELSE IF m.team1 = team THEN m.team1_score ELSE m.team2_score

\* positions of the schedule whose result differs once the overrides are applied
OverriddenPositions ==
    {i \in 1..Len(base_matches) :
        \E team \in Teams :
            MapsOf(updated_matches[i], team) # MapsOf(base_matches[i], team)}

\* the same overrides, each given in the other team order
SwappedOverrides(adjusted) ==
    [j \in 1..Len(adjusted) |-> ReversedMatch(adjusted[j])]

\* the objects of a pass that is given the overrides adjusted
StoreFor(adjusted) ==
    [NewStore EXCEPT !.adj = adjusted,
                     !.rev = [j \in 1..Len(adjusted) |-> ReversedMatch(adjusted[j])]]

\* the match list of a pass of get_current_standings given the overrides adjusted
MatchesFor(adjusted) ==
    LET store == StoreFor(adjusted)
    IN  DerefAll(store, SimMatchRefs(store))

\* no two overrides name the same pair of teams
DistinctPairs(adjusted) ==
    \A j, k \in 1..Len(adjusted) :
        j # k => {adjusted[j].team1, adjusted[j].team2}
                     # {adjusted[k].team1, adjusted[k].team2}

\* C16: with overrides that name distinct pairs, get_current_standings gives
\* the same match list (the same scheduled matches replaced, with the same
\* results) and the same series and game tallies of every team when each
\* override (A, B, a, b) is given as (B, A, b, a) instead, whichever order
\* the schedule lists the pair in.
C16_OverrideOrderIrrelevant ==
    (last_call = "standings" /\ DistinctPairs(adjusted_matches)) =>
        LET swapped == MatchesFor(SwappedOverrides(adjusted_matches))
        IN  /\ updated_matches = MatchesFor(adjusted_matches)
            /\ swapped = updated_matches
            /\ sim_teams = update_team_records_from_matches(
                                SeasonStandings(_create_fresh_teams, swapped))

\* C16 witness: a decided override given in the team order opposite to the
\* one of a scheduled match has changed that match's result
C16_Witness ==
    /\ last_call = "standings"
    /\ Len(adjusted_matches) = 1
    /\ is_completed(adjusted_matches[1])
    /\ \E i \in OverriddenPositions :
          /\ base_matches[i].team1 = adjusted_matches[1].team2
          /\ base_matches[i].team2 = adjusted_matches[1].team1
          /\ updated_matches[i].team1_score = adjusted_matches[1].team2_score
          /\ updated_matches[i].team2_score = adjusted_matches[1].team1_score

\* C17: with no teams and no matches, run_simulations comes to its end for
\* every iteration count (each step of the loop can be taken, none raises)
\* and the table it returns is empty
C17_EmptyLeagueReturnsEmptyTable ==
    (DOMAIN base_teams = {} /\ base_matches = <<>>) =>
        /\ results = EmptyMap
        /\ final_seeding = <<>>
        /\ probabilities = EmptyMap
        /\ pc = "running" =>
              /\ iteration <= num_iterations
              /\ IF iteration < num_iterations THEN ENABLED Trial
                 ELSE ENABLED FinishRunSimulations

C17_Witness ==
    /\ DOMAIN base_teams = {}
    /\ base_matches = <<>>
    /\ pc = "idle"
    /\ last_call = "trial"
    /\ iteration = 2
    /\ iteration = num_iterations
    /\ probabilities = EmptyMap

\* the overrides naming a team the team map does not hold
UnknownTeamOverrides ==
    { j \in 1..Len(adjusted_matches) :
        \/ adjusted_matches[j].team1 \notin DOMAIN base_teams
        \/ adjusted_matches[j].team2 \notin DOMAIN base_teams }

\* C18: an override that names a team the team map does not hold is
\* rejected: no call of get_current_standings and no trial of run_simulations
\* comes to its end with such an override among its arguments
C18_UnknownTeamOverrideRejected ==
    last_call \in {"standings", "trial"} => UnknownTeamOverrides = {}

\* run_simulations has returned its table after at least one trial
TableReturned ==
    /\ pc = "idle"
    /\ last_call = "trial"
    /\ num_iterations >= 1

\* C19: the table returned after at least one trial has an entry for every
\* team, and the entry holds a value between 0 and 1 for every rank label
\* seed_1 .. seed_<team count>, the ranks never reached included
C19_TableHasEveryRankLabel ==
    TableReturned =>
        \A t \in DOMAIN base_teams :
            /\ t \in DOMAIN probabilities
            /\ \A k \in 1..Cardinality(DOMAIN base_teams) :
                  /\ SeedLabels[k] \in DOMAIN probabilities[t]
                  /\ probabilities[t][SeedLabels[k]][1] >= 0
                  /\ probabilities[t][SeedLabels[k]][1]
                         <= probabilities[t][SeedLabels[k]][2]

\* the seed_N counters of one team, added up over N
SeedCountSum(counts) ==
    LET n(k) == IF SeedLabels[k] \in DOMAIN counts THEN counts[SeedLabels[k]] ELSE 0
        sum[k \in 0..Len(SeedLabels)] == IF k = 0 THEN 0 ELSE sum[k - 1] + n(k)
    IN  sum[Len(SeedLabels)]

\* a counter of one team, 0 when the key was never counted
CountOf(counts, key) == IF key \in DOMAIN counts THEN counts[key] ELSE 0

\* the counters seed_1 .. seed_<cutoff> of one team, added up
SeedCountUpTo(counts, cutoff) ==
    LET sum[k \in 0..cutoff] ==
            IF k = 0 THEN 0 ELSE sum[k - 1] + CountOf(counts, SeedLabels[k])
    IN  sum[cutoff]

\* C20: after any number of trials, every team's make_play_ins counter is
\* the sum of its counters seed_1 .. seed_10, its make_bracket counter is
\* the sum of its counters seed_1 .. seed_6, and
\* make_bracket <= make_play_ins <= number of trials
C20_CutoffCountersAgree ==
    \A t \in DOMAIN results :
        /\ CountOf(results[t], "make_play_ins") = SeedCountUpTo(results[t], 10)
        /\ CountOf(results[t], "make_bracket") = SeedCountUpTo(results[t], 6)
        /\ CountOf(results[t], "make_bracket") <= CountOf(results[t], "make_play_ins")
        /\ CountOf(results[t], "make_play_ins") <= iteration

\* C20 witness: after two trials some team was seeded below the play-in
\* cutoff once and between the two cutoffs once
C20_Witness ==
    /\ iteration = 2
    /\ \E t \in DOMAIN results :
          /\ CountOf(results[t], "make_bracket") = 0
          /\ CountOf(results[t], "make_play_ins") = 1
          /\ SeedCountSum(results[t]) = 2

\* the seed_N probabilities of one team, added up over N
SeedProbabilitySum(probs) ==
    LET present == SelectSeq(SeedLabels, LAMBDA l : l \in DOMAIN probs)
    IN  FracSum([k \in 1..Len(present) |-> probs[present[k]]])

\* C2: while run_simulations runs, every team's seed_N counters add up to the
\* number of trials made; once a run of one or more trials has returned,
\* every team's seed_N probabilities add up to exactly 1.
C2_RankCountsSumToTrials ==
    /\ last_call = "trial" =>
           \A t \in Teams :
               /\ t \in DOMAIN results
               /\ SeedCountSum(results[t]) = iteration
    /\ (last_call = "trial" /\ pc = "idle") =>
           /\ iteration = num_iterations
           /\ num_iterations >= 1
           /\ \A t \in Teams :
                  /\ t \in DOMAIN probabilities
                  /\ FracEQ(SeedProbabilitySum(probabilities[t]), <<1, 1>>)

\* C2 witness: a run of two trials has returned, and some team was ranked
\* differently in the two trials (two of its counters are 1)
C2_Witness ==
    /\ last_call = "trial"
    /\ pc = "idle"
    /\ num_iterations = 2
    /\ \E t \in DOMAIN probabilities :
          \E k, l \in 1..Len(SeedLabels) :
              /\ k # l
              /\ SeedLabels[k] \in DOMAIN probabilities[t]
              /\ SeedLabels[l] \in DOMAIN probabilities[t]

\* the positions of the match list at which a trial sampled
SampledAt(smp) == {smp[k].pos : k \in 1..Len(smp)}

\* C3: a trial of run_simulations leaves the caller's override objects and
\* the base matches as they were, so a result sampled in one trial is not
\* seen by the next, and each trial after the first samples the same
\* positions of the match list as the trial before it.
C3_TrialsShareNoState ==
    [][(pc = "running" /\ iteration' = iteration + 1) =>
          /\ adjusted_matches' = adjusted_matches
          /\ base_matches' = base_matches
          /\ (iteration >= 1 => SampledAt(samples') = SampledAt(samples))]_vars

\* the ratings a trial sampled a match with are the input ratings of its teams
SampledWithInputRatings ==
    \A k \in 1..Len(samples) :
        LET match == sim_matches[samples[k].pos]
        IN  /\ samples[k].rating1 = base_teams[match.team1].elo_rating
            /\ samples[k].rating2 = base_teams[match.team2].elo_rating

\* C4: no step of run_simulations or get_current_standings changes a base
\* match or a base team (rating and aggregates), and every sample of every
\* trial is drawn with the input ratings of the two teams.
C4_InputsUnchanged ==
    [][/\ base_matches' = base_matches
       /\ base_teams' = base_teams
       /\ SampledWithInputRatings']_vars

\* C4 witness: a second trial has sampled a base match that is still
\* undecided in the base list
C4_Witness ==
    /\ last_call = "trial"
    /\ iteration = 2
    /\ \E k \in 1..Len(samples) :
          /\ samples[k].pos \in 1..Len(base_matches)
          /\ ~is_completed(base_matches[samples[k].pos])
          /\ sim_matches[samples[k].pos].id = base_matches[samples[k].pos].id

\* C5: applying the overrides changes the result or the decided/undecided
\* status of at most one scheduled match per override, whatever the schedule
\* is, and leaves every team rating as it was.
C5_OverrideChangesOneMatch ==
    HasPass =>
        /\ Len(updated_matches) = Len(base_matches)
        /\ Cardinality(OverriddenPositions) <= Len(adjusted_matches)
        /\ \A t \in Teams : sim_teams[t].elo_rating = base_teams[t].elo_rating

\* C6: every decided score that the validation accepts has exactly one side
\* at 3 and both sides within 0..3, and every other decided score is rejected
\* with an error.
C6_AcceptedScoresAreBestOf5 ==
    /\ response.status = 200 =>
           \A j \in 1..Len(request) :
               is_completed(request[j]) =>
                   IsBestOf5Result(request[j].team1_score, request[j].team2_score)
    /\ response.status = 400 =>
           \E j \in 1..Len(request) :
               /\ is_completed(request[j])
               /\ ~IsBestOf5Result(request[j].team1_score, request[j].team2_score)

\* C7: a pass of run_simulations or get_current_standings is made only with
\* overrides whose decided scores are best-of-5 results, and no decided match
\* that counts towards the records has another score.
C7_CoreRejectsInvalidOverride ==
    HasPass =>
        /\ \A j \in 1..Len(adjusted_matches) :
               is_completed(adjusted_matches[j]) => is_valid_score(adjusted_matches[j])
        /\ \A i \in 1..Len(sim_matches) :
               is_completed(sim_matches[i]) => is_valid_score(sim_matches[i])

WinsOver(st, x, y) ==
    Cardinality({ i \in 1..Len(st.matches) :
        /\ is_completed(st.matches[i])
        /\ {st.matches[i].team1, st.matches[i].team2} = {x, y}
        /\ winner(st.matches[i]) = x })

RECURSIVE GamesOverFrom(_, _, _, _)
GamesOverFrom(ms, x, y, i) ==
    IF i > Len(ms) THEN 0
    ELSE GamesOverFrom(ms, x, y, i + 1)
         + (IF is_completed(ms[i]) /\ ms[i].team1 = x /\ ms[i].team2 = y
            THEN ms[i].team1_score
            ELSE IF is_completed(ms[i]) /\ ms[i].team1 = y /\ ms[i].team2 = x
            THEN ms[i].team2_score
            ELSE 0)

GamesOver(st, x, y) == GamesOverFrom(st.matches, x, y, 1)

\* x is ahead of y on the head-to-head between the two alone: the better
\* series fraction, or the same series fraction and the better game fraction
AheadBetweenTheTwo(st, x, y) ==
    \/ WinsOver(st, x, y) > WinsOver(st, y, x)
    \/ /\ WinsOver(st, x, y) = WinsOver(st, y, x)
       /\ WinsOver(st, x, y) > 0
       /\ GamesOver(st, x, y) > GamesOver(st, y, x)

\* the runs of equal values the deciding tier cuts the group into
RunsOf(st, g) ==
    LET metric == TierMetric(st, g, SeparatingTier(st, g))
    IN  MetricGroups(SortedDesc(g, metric), metric)

\* C23: when a tier separates a group, the order returned is the runs of
\* equal metric values in descending order of the metric, a run of one team
\* as it is and a run of two or more resolved by resolve_tie on that run
\* alone; two teams of such a run that have met are then ordered by the
\* head-to-head between the two of them only
C23_PartialSeparationRecurses ==
    HasPass =>
        \A g \in TieGroups, rnd \in Orderings(Teams) :
            SeparatingTier(LatestStandings, g) <= 6 =>
                LET metric == TierMetric(LatestStandings, g,
                                         SeparatingTier(LatestStandings, g))
                    runs == RunsOf(LatestStandings, g)
                    order == resolve_tie(LatestStandings, g, rnd)
                IN  /\ Len(runs) >= 2
                    /\ order = Flatten([r \in 1..Len(runs) |->
                                  IF Len(runs[r]) = 1 THEN runs[r]
                                  ELSE resolve_tie(LatestStandings, runs[r], rnd)])
                    /\ \A r \in 1..(Len(runs) - 1) :
                          FracGT(metric[runs[r][1]], metric[runs[r + 1][1]])
                    /\ \A r \in 1..Len(runs) :
                          Len(runs[r]) = 2 =>
                              \A x, y \in Range(runs[r]) :
                                  AheadBetweenTheTwo(LatestStandings, x, y)
                                      => Position(order, x) < Position(order, y)

\* C23 witness: tier 1 sets one of three teams apart and leaves two level on
\* the head-to-head among the three; the two are then ordered by the
\* head-to-head between themselves
C23_Witness ==
    /\ HasPass
    /\ SeparatingTier(LatestStandings, TeamNames) = 1
    /\ \E r \in 1..Len(RunsOf(LatestStandings, TeamNames)) :
          LET run == RunsOf(LatestStandings, TeamNames)[r]
          IN  /\ Len(run) = 2
              /\ \E x, y \in Range(run) :
                    /\ AheadBetweenTheTwo(LatestStandings, x, y)
                    /\ Position(final_seeding, x) < Position(final_seeding, y)

\* the orders resolve_tie may return for the group, over all shuffles
ResolvedOrders(st, g) == { resolve_tie(st, g, rnd) : rnd \in Orderings(Teams) }

\* no tier 7 on the way: a tier of 1..6 separates the group, and every run
\* of two or more teams it leaves is again resolved without tier 7
RECURSIVE NoShuffleNeeded(_, _)
NoShuffleNeeded(st, g) ==
    \/ Len(g) <= 1
    \/ /\ SeparatingTier(st, g) <= 6
       /\ \A r \in 1..Len(RunsOf(st, g)) : NoShuffleNeeded(st, RunsOf(st, g)[r])

\* C24: on a group that no tier of 1..6 separates, every order of the group
\* is a possible result of resolve_tie; on any other group two teams with
\* different values at the separating tier come in the same order whatever
\* the shuffle, and the result depends on the shuffle only if some run
\* reached by the recursion is separated by no tier of 1..6
C24_ShuffleOnlyWhenNoTierSeparates ==
    HasPass =>
        \A g \in TieGroups :
            LET orders == ResolvedOrders(LatestStandings, g)
                tier == SeparatingTier(LatestStandings, g)
                metric == TierMetric(LatestStandings, g, tier)
            IN  /\ tier = 7 => orders = Orderings(Range(g))
                /\ tier <= 6 =>
                      \A x, y \in Range(g) :
                          FracGT(metric[x], metric[y]) =>
                              \A order \in orders :
                                  Position(order, x) < Position(order, y)
                /\ NoShuffleNeeded(LatestStandings, g) <=> Cardinality(orders) = 1

\* C24 witness: a tier separates the three teams into a single team and a
\* run of two that no tier separates, so that exactly two orders are possible
C24_Witness ==
    /\ HasPass
    /\ SeparatingTier(LatestStandings, TeamNames) <= 6
    /\ \E r \in 1..Len(RunsOf(LatestStandings, TeamNames)) :
          /\ Len(RunsOf(LatestStandings, TeamNames)[r]) = 2
          /\ SeparatingTier(LatestStandings, RunsOf(LatestStandings, TeamNames)[r]) = 7
    /\ Cardinality(ResolvedOrders(LatestStandings, TeamNames)) = 2
    /\ final_seeding \in ResolvedOrders(LatestStandings, TeamNames)

\* lists of distinct teams of any length, the empty list included
TeamLists ==
    {g \in UNION {[1..n -> Teams] : n \in 0..NumTeams} :
        \A i, j \in 1..Len(g) : i # j => g[i] # g[j]}

\* some match of the list is between x and y, in either listing order
Listed(ms, x, y) ==
    \E i \in 1..Len(ms) : {ms[i].team1, ms[i].team2} = {x, y}

\* some decided match of the list is between x and y
Met(ms, x, y) ==
    \E i \in 1..Len(ms) :
        /\ ms[i].team1_score # None
        /\ ms[i].team2_score # None
        /\ {ms[i].team1, ms[i].team2} = {x, y}

\* C25: all_teams_played_each_other(group) is true exactly when every two
\* distinct teams of the group have a decided match between them, in either
\* listing order; in particular it is true for a group of fewer than two teams
C25_AllPlayedIffEveryPairMet ==
    HasPass =>
        \A g \in TeamLists :
            /\ all_teams_played_each_other(LatestStandings, g)
                  <=> \A x, y \in Range(g) : x # y => Met(sim_matches, x, y)
            /\ Len(g) < 2 => all_teams_played_each_other(LatestStandings, g)

\* C25 witness: every pair of the three teams has a listed match, the answer
\* for the three is false because one pair's match is undecided, and it is
\* true for A and C, whose decided match is listed as C against A
C25_Witness ==
    /\ HasPass
    /\ \A x, y \in Teams : x # y => Listed(sim_matches, x, y)
    /\ ~all_teams_played_each_other(LatestStandings, TeamNames)
    /\ all_teams_played_each_other(LatestStandings, <<"A", "C">>)
    /\ \A i \in 1..Len(sim_matches) : sim_matches[i].team1 = "A" => sim_matches[i].team2 # "C"

\* the teams t has met in decided matches, each once, in the order of TeamNames
OpponentsFaced(ms, t) ==
    LET faced(o) == o # t /\ Met(ms, o, t)
    IN  SelectSeq(TeamNames, faced)

\* <<wins, losses>> of opp over the decided matches of the list that are not
\* against t, in series or in games
RECURSIVE RecordWithout(_, _, _, _, _)
RecordWithout(ms, opp, t, use_maps, i) ==
    IF i > Len(ms) THEN <<0, 0>>
    ELSE LET m == ms[i]
             rest == RecordWithout(ms, opp, t, use_maps, i + 1)
             counts == /\ is_completed(m)
                       /\ opp \in {m.team1, m.team2}
                       /\ t \notin {m.team1, m.team2}
             own == IF m.team1 = opp THEN m.team1_score ELSE m.team2_score
             other == IF m.team1 = opp THEN m.team2_score ELSE m.team1_score
         IN  IF ~counts THEN rest
             ELSE IF use_maps THEN <<rest[1] + own, rest[2] + other>>
             ELSE IF own > other THEN <<rest[1] + 1, rest[2]>>
             ELSE <<rest[1], rest[2] + 1>>

\* the average over the opponents t has faced, each opponent once
SosOverOpponents(ms, t, use_maps) ==
    LET opps == OpponentsFaced(ms, t)
        pcts == [k \in 1..Len(opps) |->
                    LET wl == RecordWithout(ms, opps[k], t, use_maps, 1)
                    IN  Pct(wl[1], wl[1] + wl[2])]
    IN  IF opps = <<>> THEN Zero ELSE FracDivInt(FracSum(pcts), Len(opps))

\* C26: with the aggregates rebuilt from the decided matches,
\* calculate_strength_of_schedule(T) is the average, over the opponents T
\* has faced in decided matches, of the opponent's win fraction over its
\* matches that are not against T (0 for an opponent with no other match),
\* in series or in games; it is 0 for a team with no decided match
C26_SosIsAverageOverOpponents ==
    last_call = "standings" =>
        \A t \in Teams, use_maps \in BOOLEAN :
            FracEQ(calculate_strength_of_schedule(LatestStandings, t, use_maps),
                   SosOverOpponents(sim_matches, t, use_maps))

\* a name no team has
NoTeam == "-"

\* <<wins, losses>> of the team over all decided matches of the list
TotalRecord(ms, team, use_maps) == RecordWithout(ms, team, NoTeam, use_maps, 1)

\* aggregates a team may carry into the call: none, or left over from before
StaleTallies == { <<0, 0, 0, 0>>, <<2, 1, 7, 4>> }

WithTallies(teams, tallies) ==
    [t \in DOMAIN teams |->
        [teams[t] EXCEPT !.match_wins = tallies[1], !.match_losses = tallies[2],
                         !.map_wins = tallies[3], !.map_losses = tallies[4]]]

\* C27: update_team_records_from_matches leaves every team with the series
\* and game totals over the decided matches of the list, each counted once,
\* whatever the aggregates were before; a second call changes nothing
C27_RecordsAreTotalsOfDecidedMatches ==
    last_call = "standings" =>
        /\ \A t \in Teams :
              /\ match_record(sim_teams[t]) = TotalRecord(sim_matches, t, FALSE)
              /\ map_record(sim_teams[t]) = TotalRecord(sim_matches, t, TRUE)
        /\ \A tallies \in StaleTallies :
              update_team_records_from_matches(
                  SeasonStandings(WithTallies(sim_teams, tallies), sim_matches))
                = sim_teams
        /\ update_team_records_from_matches(LatestStandings) = sim_teams

\* C27 witness: the list holds an undecided match, and a team with two or
\* more decided matches carries their totals
C27_Witness ==
    /\ last_call = "standings"
    /\ \E i \in 1..Len(sim_matches) : ~is_completed(sim_matches[i])
    /\ \E t \in Teams :
          /\ sim_teams[t].match_wins >= 1
          /\ sim_teams[t].match_losses >= 1
          /\ match_record(sim_teams[t]) = TotalRecord(sim_matches, t, FALSE)
          /\ update_team_records_from_matches(LatestStandings)[t] = sim_teams[t]

\* C28: at the end of every trial every match of the trial's list is
\* decided, and the aggregates the trial built up while sampling are the
\* ones update_team_records_from_matches computes from that list
C28_TrialAggregatesMatchList ==
    last_call = "trial" =>
        /\ \A i \in 1..Len(sim_matches) : is_completed(sim_matches[i])
        /\ sim_teams = update_team_records_from_matches(LatestStandings)

\* the standings built from the loaded data: fresh teams, the records
\* rebuilt from the scheduled matches
LoadedStandings ==
    SeasonStandings(
        update_team_records_from_matches(
            SeasonStandings(_create_fresh_teams, base_matches)),
        base_matches)

Max(S) == CHOOSE x \in S : \A y \in S : x >= y

\* the depth of the calls of resolve_tie on the group: 1 for a call that
\* returns without a recursive call, one more than the deepest call on a run
\* otherwise; followed for at most `fuel` levels, Len(g) + 1 beyond that
RECURSIVE DepthFrom(_, _, _, _)
DepthFrom(st, g, fuel, top) ==
    IF fuel = 0 THEN top + 1
    ELSE IF Len(g) <= 1 \/ SeparatingTier(st, g) = 7 THEN 1
    ELSE LET runs == RunsOf(st, g)
         IN  1 + Max({0} \cup { DepthFrom(st, runs[r], fuel - 1, top) :
                                   r \in {k \in 1..Len(runs) : Len(runs[k]) >= 2} })

RecursionDepth(st, g) == DepthFrom(st, g, Len(g) + 1, Len(g))

\* C30: resolve_tie calls itself only when a tier cuts the group into two
\* or more runs, and then on runs that hold fewer teams than the group (the
\* runs are disjoint and make up the group), so that the depth of the calls
\* is at most the size of the group
C30_ResolveTieTerminates ==
    \A g \in TieGroups :
        /\ SeparatingTier(LoadedStandings, g) <= 6 =>
              LET runs == RunsOf(LoadedStandings, g)
              IN  /\ Len(runs) >= 2
                  /\ IsPermutationOf(Flatten(runs), Range(g))
                  /\ \A r \in 1..Len(runs) :
                        /\ Len(runs[r]) >= 1
                        /\ Len(runs[r]) < Len(g)
        /\ RecursionDepth(LoadedStandings, g) <= Len(g)

\* C30 witness: a call on the three teams has led to a call on a run of two
\* of them, and the seeding was returned
C30_Witness ==
    /\ HasPass
    /\ RecursionDepth(LatestStandings, TeamNames) = 2
    /\ final_seeding \in ResolvedOrders(LatestStandings, TeamNames)

\* C8: for a group of two or more teams that have not all played each other,
\* tier 1 and tier 2 report no result whatever the head-to-head numbers are,
\* and the group's order is the one tiers 3 to 7 give.
C8_H2HSkippedUnlessAllPlayed ==
    HasPass =>
        \A g \in TieGroups, rnd \in Orderings(Teams) :
            ~all_teams_played_each_other(LatestStandings, g) =>
                /\ _apply_tier1_h2h_match_pct(LatestStandings, g, rnd) = NoResult
                /\ _apply_tier2_h2h_map_pct(LatestStandings, g, rnd) = NoResult
                /\ resolve_tie(LatestStandings, g, rnd)
                     = ResolveFromTier3(LatestStandings, g, rnd)

\* C8 witness: a group that has not all played each other although its raw
\* head-to-head series and game percentages differ
C8_Witness ==
    /\ HasPass
    /\ \E g \in TieGroups :
          /\ ~all_teams_played_each_other(LatestStandings, g)
          /\ Differ(H2HWinPcts(LatestStandings, g, FALSE))
          /\ Differ(H2HWinPcts(LatestStandings, g, TRUE))

\* the three teams are each 1-1 in series among themselves (a circle) and
\* their head-to-head game percentages are not all the same
CircularGroup(st, g) ==
    /\ Len(g) = 3
    /\ all_teams_played_each_other(st, g)
    /\ \A t \in Range(g) : get_head_to_head_record(st, g, FALSE)[t] = <<1, 1>>
    /\ Differ(H2HWinPcts(st, g, TRUE))

\* C9: for 3 teams in a circular head-to-head whose head-to-head game win
\* percentages differ, tier 1 reports no separation and resolve_tie returns
\* the order of tier 2, led by a team with the highest head-to-head game win %.
C9_CircularResolvedByTier2 ==
    HasPass =>
        \A g \in TieGroups, rnd \in Orderings(Teams) :
            CircularGroup(LatestStandings, g) =>
                LET order == resolve_tie(LatestStandings, g, rnd)
                    map_pcts == H2HWinPcts(LatestStandings, g, TRUE)
                IN  /\ _apply_tier1_h2h_match_pct(LatestStandings, g, rnd) = NoResult
                    /\ _apply_tier2_h2h_map_pct(LatestStandings, g, rnd) # NoResult
                    /\ order = _apply_tier2_h2h_map_pct(LatestStandings, g, rnd)
                    /\ \A t \in Range(g) : ~FracGT(map_pcts[t], map_pcts[order[1]])

\* C9 witness: a circular group whose three game percentages are all different
C9_Witness ==
    /\ HasPass
    /\ \E g \in TieGroups :
          /\ CircularGroup(LatestStandings, g)
          /\ LET map_pcts == H2HWinPcts(LatestStandings, g, TRUE)
             IN  \A t, u \in Range(g) : t # u => ~FracEQ(map_pcts[t], map_pcts[u])
          /\ final_seeding = resolve_tie(LatestStandings, g, TeamNames)

\* C10: a team with a strictly greater overall series win fraction is ranked
\* ahead; the tiebreaker tiers reorder only teams of equal series win fraction.
C10_SeedingFollowsRecord ==
    HasPass =>
        \A x, y \in Teams :
            FracGT(match_win_pct(sim_teams[x]), match_win_pct(sim_teams[y]))
                => Position(final_seeding, x) < Position(final_seeding, y)

\* C10 witness: x is ranked ahead of y on the series record although y has
\* the better overall game win fraction
C10_Witness ==
    /\ HasPass
    /\ \E x, y \in Teams :
          /\ FracGT(match_win_pct(sim_teams[x]), match_win_pct(sim_teams[y]))
          /\ FracGT(map_win_pct(sim_teams[y]), map_win_pct(sim_teams[x]))
          /\ Position(final_seeding, x) < Position(final_seeding, y)

====
